---- MODULE Spec2Model ----
(***************************************************************************)
(* Model of the repair-shop back office (jrdias1/oficina): the totals      *)
(* calculator of utils.py, the order-number generator of models.py and the *)
(* request handlers of routes.py that call them.                           *)
(*                                                                         *)
(* Numbers.  Python floats are modelled by exact arithmetic on integers.   *)
(* Amounts and percentages are whole numbers; a value that the code        *)
(* divides by 100 is carried multiplied by 100 instead, so                 *)
(*   discount_amount, total_after_discount   are in units of 1/100,        *)
(*   surcharge_amount, final_total, the result are in units of 1/10000.    *)
(* Floating-point rounding is outside the model.                           *)
(***************************************************************************)
EXTENDS Integers, Sequences, FiniteSets, TLC

VARIABLES
    so,            \* the ServiceOrder object handed to a direct call of calculate_totals
    ret,           \* what that call returned: <<>> before it returns, <<value>> after
    current_year,  \* datetime.now().year
    clients,       \* committed rows of table client (id = position)
    vehicles,      \* committed rows of table vehicle
    orders,        \* committed rows of table service_order, with their items
    company_info,  \* committed rows of table company_info
    req,           \* per request worker: the request in progress and its db.session
    nreq           \* number of POST requests started so far

vars == <<so, ret, current_year, clients, vehicles, orders, company_info, req, nreq>>

\* The divisor of both percentages (utils.py: "/ 100").
Hundred == 100

\* One whole currency unit in the units of the result (1/10000).
Scale == Hundred * Hundred

Max(a, b) == IF a >= b THEN a ELSE b

(***************************************************************************)
(* utils.py: calculate_totals                                              *)
(***************************************************************************)

\* A faulty variant: the quoted budget taken as a ceiling instead of a floor.
base_total_ceiling(o) ==
    LET base == o.material_total + o.labor_total
    IN  IF o.general_budget < base THEN o.general_budget ELSE base

\* base_total after "Apply general budget if higher" (whole units).
base_total(o) ==
    LET base == o.material_total + o.labor_total
    IN  IF o.general_budget > base THEN o.general_budget ELSE base

\* A faulty variant: the percentage taken on the raw itemized sum.
discount_amount_raw(o) ==
    IF o.discount_type = "percentage"
    THEN (o.material_total + o.labor_total) * o.discount_value
    ELSE IF o.discount_type = "fixed" THEN o.discount_value * Hundred
    ELSE 0

\* A faulty variant: only 'none' gives no discount, anything unrecognized
\* falls into the fixed branch.
discount_amount_else_fixed(o) ==
    IF o.discount_type = "percentage" THEN base_total(o) * o.discount_value
    ELSE IF o.discount_type = "none" THEN 0
    ELSE o.discount_value * Hundred

\* discount_amount, in units of 1/100.
discount_amount(o) ==
    IF o.discount_type = "percentage" THEN base_total(o) * o.discount_value
    ELSE IF o.discount_type = "fixed" THEN o.discount_value * Hundred
    ELSE 0

\* total_after_discount, in units of 1/100.
total_after_discount(o) == base_total(o) * Hundred - discount_amount(o)

\* A faulty variant: the surcharge taken on the base, before the discount.
surcharge_amount_on_base(o) == base_total(o) * Hundred * o.surcharge_percentage

\* surcharge_amount, in units of 1/10000.
surcharge_amount(o) == total_after_discount(o) * o.surcharge_percentage

\* final_total before the clamp, in units of 1/10000.
final_total(o) == total_after_discount(o) * Hundred + surcharge_amount(o)

\* A faulty variant: the result returned without the final clamp.
calculate_totals_no_clamp(o) == final_total(o)

\* A faulty variant: the clamp applied to the discounted total, before the
\* surcharge is added.
calculate_totals_clamp_early(o) ==
    Max(total_after_discount(o) * Hundred, 0) + surcharge_amount(o)

\* The value calculate_totals returns, in units of 1/10000.
calculate_totals(o) == Max(final_total(o), 0)

(***************************************************************************)
(* Strings.  An os_number is a Python str, modelled as the sequence of its *)
(* characters (one-character strings).  Alphabet lists, in code-point      *)
(* order, the characters an os_number is made of.                          *)
(***************************************************************************)
Alphabet == <<"-", "0", "1", "2", "3", "4", "5", "6", "7", "8", "9", "O", "S">>

Ord(c) == CHOOSE i \in 1..Len(Alphabet) : Alphabet[i] = c

DigitChars == <<"0", "1", "2", "3", "4", "5", "6", "7", "8", "9">>

DigitChar(d) == DigitChars[d + 1]

DigitVal(c) == CHOOSE d \in 0..9 : DigitChars[d + 1] = c

\* str(n) for n >= 0: the decimal digits, most significant first.
RECURSIVE IntToStr(_)
IntToStr(n) ==
    IF n < 10 THEN <<DigitChar(n)>>
    ELSE IntToStr(n \div 10) \o <<DigitChar(n % 10)>>

\* int(s) for a string of decimal digits.
RECURSIVE StrToInt(_)
StrToInt(s) ==
    IF Len(s) = 0 THEN 0
    ELSE StrToInt(SubSeq(s, 1, Len(s) - 1)) * 10 + DigitVal(s[Len(s)])

\* The minimum field width of the format spec "04d".
PadWidth == 4

\* f'{n:04d}': zero-padded on the left to at least PadWidth characters.
RECURSIVE ZeroPad(_)
ZeroPad(s) == IF Len(s) >= PadWidth THEN s ELSE ZeroPad(<<"0">> \o s)

Format04d(n) == ZeroPad(IntToStr(n))

\* s.split('-')[-1]: what follows the last '-' of s (all of s if it has none).
RECURSIVE LastSegment(_)
LastSegment(s) ==
    IF Len(s) = 0 THEN <<>>
    ELSE IF s[Len(s)] = "-" THEN <<>>
    ELSE LastSegment(SubSeq(s, 1, Len(s) - 1)) \o <<s[Len(s)]>>

\* column LIKE 'prefix%'
StartsWith(s, prefix) ==
    /\ Len(s) >= Len(prefix)
    /\ SubSeq(s, 1, Len(prefix)) = prefix

\* a < b in the order of ORDER BY on a string column: character by character,
\* a proper prefix before its extensions.
RECURSIVE StrLessFrom(_, _, _)
StrLessFrom(a, b, i) ==
    IF i > Len(a) THEN i <= Len(b)
    ELSE IF i > Len(b) THEN FALSE
    ELSE IF a[i] = b[i] THEN StrLessFrom(a, b, i + 1)
    ELSE Ord(a[i]) < Ord(b[i])

StrLess(a, b) == StrLessFrom(a, b, 1)

(***************************************************************************)
(* models.py: generate_os_number                                           *)
(***************************************************************************)

\* f'OS-{current_year}-'
YearPrefix(year) == <<"O", "S", "-">> \o IntToStr(year) \o <<"-">>

\* The index in rows[lo..hi] of a row the query
\*   filter(os_number.like(prefix%)).order_by(os_number.desc()).first()
\* may return, 0 when no row matches.
\* A variant ordering by the number after the last '-' instead of by the string.
FirstDesc_numeric(rows, l, r) ==
    IF l = 0 THEN r
    ELSE IF r = 0 THEN l
    ELSE IF StrToInt(LastSegment(rows[l].os_number))
              < StrToInt(LastSegment(rows[r].os_number)) THEN r
    ELSE l

\* Of two candidate rows (indices, 0 for none) the one that ORDER BY
\* os_number DESC puts first.
FirstDesc(rows, l, r) ==
    IF l = 0 THEN r
    ELSE IF r = 0 THEN l
    ELSE IF StrLess(rows[l].os_number, rows[r].os_number) THEN r
    ELSE l

RECURSIVE LastOsIn(_, _, _, _)
LastOsIn(rows, prefix, lo, hi) ==
    IF lo > hi THEN 0
    ELSE IF lo = hi
         THEN IF StartsWith(rows[lo].os_number, prefix) THEN lo ELSE 0
    ELSE FirstDesc(rows, LastOsIn(rows, prefix, lo, (lo + hi) \div 2),
                         LastOsIn(rows, prefix, (lo + hi) \div 2 + 1, hi))

\* A variant of the query without the year in the LIKE pattern ('OS-%').
LastOs_any_year(rows, year) == LastOsIn(rows, <<"O", "S", "-">>, 1, Len(rows))

LastOs(rows, year) == LastOsIn(rows, YearPrefix(year), 1, Len(rows))

\* generate_os_number() at a moment when datetime.now().year is year and the
\* session's query sees the service_order rows `rows`.
generate_os_number(rows, year) ==
    LET last_os == LastOs(rows, year)
        next_number ==
            IF last_os # 0
            THEN StrToInt(LastSegment(rows[last_os].os_number)) + 1
            ELSE 1
    IN  YearPrefix(year) \o Format04d(next_number)

(***************************************************************************)
(* Bounds of the model                                                     *)
(***************************************************************************)
MaxAmount == 2        \* material_total and labor_total range over 0..MaxAmount
MaxBudget == 3        \* general_budget ranges over 0..MaxBudget
MaxDiscount == 6      \* discount_value ranges over 0..MaxDiscount and DiscountMarks
MaxRequests == 3      \* POST requests started in one run
MaxYears == 1         \* times the calendar year changes in one run
Margin == 1           \* orders short of the 4-digit limit in the late-year start

FirstYear == 2024

LastYear == FirstYear + MaxYears

Procs == {"w1", "w2"}

(***************************************************************************)
(* Request data.  Form and CSV values arrive as text; float() is modelled  *)
(* by the table FloatOf and raises ValueError on any text outside it.      *)
(***************************************************************************)
FloatOf ==
    [t \in {"-10", "0", "1", "2", "5", "7", "10", "50", "80"} |->
        CASE t = "-10" -> -10
          [] t = "0" -> 0 [] t = "1" -> 1 [] t = "2" -> 2 [] t = "5" -> 5
          [] t = "7" -> 7 [] t = "10" -> 10 [] t = "50" -> 50 [] t = "80" -> 80]

Parses(t) == t \in DOMAIN FloatOf

\* name.strip() is empty
IsBlank(name) == name \in {"", " "}

\* The cap of "min(float(...), 5.0)".
MaxSurcharge == 5

Min(a, b) == IF a <= b THEN a ELSE b

PlainForm ==
    [client_name |-> "ana", client_phone |-> "", new_vehicle |-> FALSE,
     labor_total |-> "50", general_budget |-> "0", discount_type |-> "none",
     discount_value |-> "0", surcharge_percentage |-> "0", items |-> <<>>]

DiscountForm ==
    [client_name |-> "ana", client_phone |-> "9", new_vehicle |-> TRUE,
     labor_total |-> "10", general_budget |-> "50", discount_type |-> "fixed",
     discount_value |-> "80", surcharge_percentage |-> "7",
     items |-> << [name |-> "oil", quantity |-> "2", price |-> "5"],
                  [name |-> " ", quantity |-> "1", price |-> "50"],
                  [name |-> "filter", quantity |-> "", price |-> ""] >>]

BadLaborForm ==
    [client_name |-> "bia", client_phone |-> "", new_vehicle |-> TRUE,
     labor_total |-> "abc", general_budget |-> "0", discount_type |-> "none",
     discount_value |-> "0", surcharge_percentage |-> "0", items |-> <<>>]

BadItemForm ==
    [client_name |-> "bia", client_phone |-> "", new_vehicle |-> FALSE,
     labor_total |-> "10", general_budget |-> "0", discount_type |-> "percentage",
     discount_value |-> "10", surcharge_percentage |-> "5",
     items |-> << [name |-> "oil", quantity |-> "2", price |-> "abc"] >>]

CreateForms == {PlainForm, DiscountForm, BadLaborForm, BadItemForm}

\* A form with a surcharge below zero.
NegSurchargeForm ==
    [client_name |-> "ana", client_phone |-> "", new_vehicle |-> FALSE,
     labor_total |-> "50", general_budget |-> "0", discount_type |-> "none",
     discount_value |-> "0", surcharge_percentage |-> "-10", items |-> <<>>]

\* The form of the edit page: the same fields and the is_paid checkbox, which
\* a browser sends as 'on' when ticked and not at all otherwise.
EditForm(form, is_paid) == [is_paid |-> is_paid] @@ form

EditForms ==
    {EditForm(PlainForm, "on"), EditForm(DiscountForm, ""),
     EditForm(NegSurchargeForm, "on"), EditForm(BadItemForm, "")}

\* Uploaded CSV files: the rows pandas yields, with the columns import_csv reads.
CsvRow(client, material, labor, total, pago) ==
    [Cliente |-> client, TotalMaterial |-> material, MaoDeObra |-> labor,
     TotalGeral |-> total, Pago |-> pago]

TwoRowFile == << CsvRow("ana", "10", "50", "80", "Sim"),
                 CsvRow("ana", "0", "10", "-10", "Não") >>

NewClientFile == << CsvRow("ana", "0", "10", "10", "Não"),
                    CsvRow("caio", "0", "10", "10", "Não") >>

CsvFiles == {TwoRowFile, NewClientFile}

(***************************************************************************)
(* Tables and sessions                                                     *)
(***************************************************************************)

\* CompanyInfo(): a row with the column defaults of models.py:102-107.
CompanyDefaults ==
    [name |-> "Sua Empresa Ltda", phone |-> "(11) 99999-9999",
     address |-> "Rua Example, 123 - Cidade/Estado",
     cnpj |-> "00.000.000/0001-00", logo_filename |-> "company_logo.svg",
     pix_qr_filename |-> "qr_pix.svg"]

\* The row init_database() creates (init_db.py:31-38).
InitCompany == [CompanyDefaults EXCEPT !.address = "Rua Example, 123 - São Paulo/SP"]

NoDate == "None"

\* ServiceOrder(...) as the handlers construct it; columns not passed take the
\* column defaults of models.py.
NewOrder(os_number, client_id, material, labor, budget, dtype, dvalue, surcharge, final, paid) ==
    [os_number |-> os_number, client_id |-> client_id,
     material_total |-> material, labor_total |-> labor,
     general_budget |-> budget, discount_type |-> dtype,
     discount_value |-> dvalue, surcharge_percentage |-> surcharge,
     final_total |-> final, is_paid |-> paid, payment_date |-> NoDate,
     items |-> <<>>]

\* A worker between requests; kind and outcome tell which request it served
\* last and how that ended, row_idx at which CSV row an import ended,
\* is_admin whether the user of a settings request was an administrator.
IdleReq(outcome) ==
    [pc |-> "idle", kind |-> "none", form |-> <<>>, client_id |-> 0,
     new_client |-> <<>>, new_vehicle |-> FALSE, os_number |-> <<>>,
     pending |-> <<>>, flushed |-> 0, row_idx |-> 0, os_id |-> 0,
     service_order |-> <<>>, is_admin |-> FALSE, instance_id |-> 0,
     instance |-> <<>>, outcome |-> outcome]

\* Client.query.filter_by(name=name).first() on the committed table: the id
\* of the first client of that name, 0 when there is none.
ClientByName(name) ==
    IF \E i \in 1..Len(clients) : clients[i].name = name
    THEN CHOOSE i \in 1..Len(clients) :
            /\ clients[i].name = name
            /\ \A j \in 1..(i - 1) : clients[j].name # name
    ELSE 0

RECURSIVE FlushedRows(_)
\* The rows the sessions of the workers in `ps` have inserted and not committed.
FlushedRows(ps) ==
    IF ps = {} THEN <<>>
    ELSE LET q == CHOOSE x \in ps : TRUE
         IN  SubSeq(req[q].pending, 1, req[q].flushed) \o FlushedRows(ps \ {q})

\* A variant in which a query also sees the uncommitted rows of the other
\* sessions (dirty reads), so that a flushed number counts as taken.
Visible_dirty(p) == orders \o FlushedRows(Procs \ {p}) \o req[p].pending

\* The service_order rows a query of worker p's session sees: the committed
\* rows and the rows of its own session (autoflush sends them first).
Visible(p) == orders \o req[p].pending

\* A variant of the schema without unique=True on os_number.
UniqueViolation_unchecked(p, n) == FALSE

\* INSERT of os_number n by worker p violates the unique index: a committed
\* row, or a row p itself already inserted, has it.
UniqueViolation(p, n) ==
    \/ \E i \in 1..Len(orders) : orders[i].os_number = n
    \/ \E i \in 1..req[p].flushed : req[p].pending[i].os_number = n

\* Another session holds an uncommitted row with os_number n: the INSERT
\* waits for that transaction to end.
MustWait(p, n) ==
    \E q \in Procs \ {p} :
        \E i \in 1..req[q].flushed : req[q].pending[i].os_number = n

\* The request of worker p is over (after commit, or after the rollback of the
\* except branch, which discards everything its session held).
Finish(p, outcome) ==
    req' = [req EXCEPT ![p] =
              [IdleReq(outcome) EXCEPT !.kind = req[p].kind,
                                       !.row_idx = req[p].row_idx,
                                       !.is_admin = req[p].is_admin]]

(***************************************************************************)
(* routes.py: create_os (POST)                                             *)
(***************************************************************************)

\* A faulty variant: the new client is committed as soon as it is created,
\* ahead of the rest of the request.
CreateOsClient_committing(p, form) ==
    /\ req[p].pc = "idle"
    /\ nreq < MaxRequests
    /\ nreq' = nreq + 1
    /\ LET cid == ClientByName(form.client_name)
       IN  /\ req' = [req EXCEPT ![p] =
                  [IdleReq("none") EXCEPT
                      !.pc = "co_client", !.kind = "create_os", !.form = form,
                      !.client_id = IF cid = 0 THEN Len(clients) + 1 ELSE cid,
                      !.new_vehicle = form.new_vehicle]]
           /\ clients' =
                  IF cid = 0
                  THEN Append(clients, [name |-> form.client_name,
                                        phone |-> form.client_phone])
                  ELSE clients
    /\ UNCHANGED <<so, ret, current_year, vehicles, orders, company_info>>

\* Lines 77-108: get or create the client, create the vehicle; both INSERTs
\* stay in the session until commit.
CreateOsClient(p, form) ==
    /\ req[p].pc = "idle"
    /\ nreq < MaxRequests
    /\ nreq' = nreq + 1
    /\ LET cid == ClientByName(form.client_name)
       IN  req' = [req EXCEPT ![p] =
                [IdleReq("none") EXCEPT
                    !.pc = "co_client", !.kind = "create_os", !.form = form,
                    !.client_id = cid,
                    !.new_client =
                        IF cid = 0
                        THEN << [name |-> form.client_name,
                                 phone |-> form.client_phone] >>
                        ELSE <<>>,
                    !.new_vehicle = form.new_vehicle]]
    /\ UNCHANGED <<so, ret, current_year, clients, vehicles, orders, company_info>>

\* Line 111: os_number = generate_os_number()
CreateOsGenerate(p) ==
    /\ req[p].pc = "co_client"
    /\ req' = [req EXCEPT ![p].pc = "co_generated",
                          ![p].os_number =
                              generate_os_number(Visible(p), current_year)]
    /\ UNCHANGED <<so, ret, current_year, clients, vehicles, orders, nreq, company_info>>

\* Lines 112-128: build the ServiceOrder (float() of the form's numbers), add
\* it and flush, which sends the INSERT.
CreateOsInsert(p) ==
    /\ req[p].pc = "co_generated"
    /\ LET f == req[p].form
           n == req[p].os_number
       IN  IF ~(/\ Parses(f.labor_total) /\ Parses(f.general_budget)
                /\ Parses(f.discount_value) /\ Parses(f.surcharge_percentage))
           THEN Finish(p, "ValueError")
           ELSE IF UniqueViolation(p, n)
           THEN Finish(p, "IntegrityError")
           ELSE /\ ~MustWait(p, n)
                /\ req' = [req EXCEPT
                      ![p].pc = "co_flushed",
                      ![p].flushed = 1,
                      ![p].pending =
                          << NewOrder(n, req[p].client_id, 0,
                                FloatOf[f.labor_total],
                                FloatOf[f.general_budget],
                                f.discount_type,
                                FloatOf[f.discount_value],
                                Min(FloatOf[f.surcharge_percentage], MaxSurcharge),
                                0, FALSE) >>]
    /\ UNCHANGED <<so, ret, current_year, clients, vehicles, orders, nreq, company_info>>

\* Lines 136-150: the ServiceOrderItem rows of the form rows with a non-blank
\* name; an empty quantity is 1.0, an empty price 0.0.
ItemRows(form) == SelectSeq(form.items, LAMBDA it : ~IsBlank(it.name))

ItemsParse(form) ==
    \A i \in 1..Len(ItemRows(form)) :
        /\ ItemRows(form)[i].quantity = "" \/ Parses(ItemRows(form)[i].quantity)
        /\ ItemRows(form)[i].price = "" \/ Parses(ItemRows(form)[i].price)

MakeItem(it) ==
    LET quantity == IF it.quantity # "" THEN FloatOf[it.quantity] ELSE 1
        unit_price == IF it.price # "" THEN FloatOf[it.price] ELSE 0
    IN  [name |-> it.name, quantity |-> quantity, unit_price |-> unit_price,
         total_price |-> quantity * unit_price]

Items(form) == [i \in 1..Len(ItemRows(form)) |-> MakeItem(ItemRows(form)[i])]

RECURSIVE SumTotalPrice(_)
SumTotalPrice(items) ==
    IF Len(items) = 0 THEN 0
    ELSE SumTotalPrice(SubSeq(items, 1, Len(items) - 1))
            + items[Len(items)].total_price

\* db.session.commit() of worker p's session: its client, vehicle and
\* service_order rows become committed rows.  `rows` are its service orders.
CommitSession(p, rows) ==
    LET cid == IF req[p].new_client # <<>> THEN Len(clients) + 1
               ELSE req[p].client_id
    IN  /\ clients' =
              IF req[p].new_client # <<>> THEN clients \o req[p].new_client
              ELSE IF req[p].kind = "create_os" /\ req[p].form.client_phone # ""
              THEN [clients EXCEPT ![cid].phone = req[p].form.client_phone]
              ELSE clients
        /\ vehicles' =
              IF req[p].new_vehicle THEN Append(vehicles, [client_id |-> cid])
              ELSE vehicles
        /\ orders' = orders \o
              [i \in 1..Len(rows) |->
                  IF rows[i].client_id = 0
                  THEN [rows[i] EXCEPT !.client_id = cid]
                  ELSE rows[i]]

\* Lines 130-166: the items, material_total, final_total, commit.
CreateOsCommit(p) ==
    /\ req[p].pc = "co_flushed"
    /\ IF ~ItemsParse(req[p].form)
       THEN /\ Finish(p, "ValueError")
            /\ UNCHANGED <<clients, vehicles, orders>>
       ELSE LET items == Items(req[p].form)
                with_material ==
                    [req[p].pending[1] EXCEPT
                        !.material_total = SumTotalPrice(items),
                        !.items = items]
                service_order ==
                    [with_material EXCEPT
                        !.final_total = calculate_totals(with_material)]
            IN  /\ CommitSession(p, <<service_order>>)
                /\ Finish(p, "ok")
    /\ UNCHANGED <<so, ret, current_year, nreq, company_info>>

(***************************************************************************)
(* routes.py: import_csv                                                   *)
(***************************************************************************)

\* row.get('Pago', 'Não').lower() == 'sim'
IsSim(t) == t \in {"Sim", "sim", "SIM"}

\* The rows of p's session not yet sent to the database; the next query or
\* the commit flushes them.
Unflushed(p) == (req[p].flushed + 1)..Len(req[p].pending)

FlushViolation(p) ==
    \E i \in Unflushed(p) : UniqueViolation(p, req[p].pending[i].os_number)

FlushMustWait(p) ==
    \E i \in Unflushed(p) : MustWait(p, req[p].pending[i].os_number)

\* Lines 533-535: the file is read.
ImportStart(p, file) ==
    /\ req[p].pc = "idle"
    /\ nreq < MaxRequests
    /\ nreq' = nreq + 1
    /\ req' = [req EXCEPT ![p] =
            [IdleReq("none") EXCEPT
                !.pc = "imp_rows", !.kind = "import_csv", !.form = file,
                !.row_idx = 1]]
    /\ UNCHANGED <<so, ret, current_year, clients, vehicles, orders, company_info>>

\* A faulty variant: every row is committed on its own, as soon as its order
\* is added.
ImportRow_committing(p) ==
    /\ req[p].pc = "imp_rows"
    /\ req[p].row_idx <= Len(req[p].form)
    /\ LET row == req[p].form[req[p].row_idx]
           cid == ClientByName(row.Cliente)
           n == generate_os_number(Visible(p), current_year)
       IN  IF cid = 0
           THEN Finish(p, "TypeError") /\ UNCHANGED orders
           ELSE IF ~(/\ Parses(row.TotalMaterial) /\ Parses(row.MaoDeObra)
                     /\ Parses(row.TotalGeral))
           THEN Finish(p, "ValueError") /\ UNCHANGED orders
           ELSE IF UniqueViolation(p, n)
           THEN Finish(p, "IntegrityError") /\ UNCHANGED orders
           ELSE /\ ~MustWait(p, n)
                /\ req' = [req EXCEPT ![p].os_number = n,
                                      ![p].row_idx = req[p].row_idx + 1]
                /\ orders' = Append(orders,
                      NewOrder(n, cid, FloatOf[row.TotalMaterial],
                          FloatOf[row.MaoDeObra], 0, "none", 0, 0,
                          FloatOf[row.TotalGeral] * Scale, IsSim(row.Pago)))
    /\ UNCHANGED <<so, ret, current_year, clients, vehicles, nreq, company_info>>

\* Lines 537-564, one iteration: the client query (which first flushes the
\* order of the previous row), Client(...) for an unknown client, which raises
\* TypeError because Client has no license_plate or car_model attribute,
\* generate_os_number(), and the new ServiceOrder added to the session.
ImportRow(p) ==
    /\ req[p].pc = "imp_rows"
    /\ req[p].row_idx <= Len(req[p].form)
    /\ LET row == req[p].form[req[p].row_idx]
           cid == ClientByName(row.Cliente)
           n == generate_os_number(Visible(p), current_year)
       IN  IF FlushViolation(p) THEN Finish(p, "IntegrityError")
           ELSE /\ ~FlushMustWait(p)
                /\ IF cid = 0 THEN Finish(p, "TypeError")
                   ELSE IF ~(/\ Parses(row.TotalMaterial) /\ Parses(row.MaoDeObra)
                             /\ Parses(row.TotalGeral))
                   THEN Finish(p, "ValueError")
                   ELSE req' = [req EXCEPT
                          ![p].os_number = n,
                          ![p].flushed = Len(req[p].pending),
                          ![p].row_idx = req[p].row_idx + 1,
                          ![p].pending = Append(req[p].pending,
                              NewOrder(n, cid, FloatOf[row.TotalMaterial],
                                  FloatOf[row.MaoDeObra], 0, "none", 0, 0,
                                  FloatOf[row.TotalGeral] * Scale,
                                  IsSim(row.Pago)))]
    /\ UNCHANGED <<so, ret, current_year, clients, vehicles, orders, nreq, company_info>>

\* Line 566: commit after the last row (it flushes what is left first).
ImportCommit(p) ==
    /\ req[p].pc = "imp_rows"
    /\ req[p].row_idx > Len(req[p].form)
    /\ IF FlushViolation(p)
       THEN /\ Finish(p, "IntegrityError")
            /\ UNCHANGED <<clients, vehicles, orders>>
       ELSE /\ ~FlushMustWait(p)
            /\ CommitSession(p, req[p].pending)
            /\ Finish(p, "ok")
    /\ UNCHANGED <<so, ret, current_year, nreq, company_info>>

(***************************************************************************)
(* routes.py: edit_os (POST)                                               *)
(***************************************************************************)

\* datetime.utcnow() as stored in payment_date.
Now == "utcnow"

\* Line 192: ServiceOrder.query.get_or_404(os_id) loads the order into the
\* session; an unknown id answers 404 before anything else happens.
EditOsLoad(p, os_id, form) ==
    /\ req[p].pc = "idle"
    /\ nreq < MaxRequests
    /\ nreq' = nreq + 1
    /\ IF os_id \in 1..Len(orders)
       THEN req' = [req EXCEPT ![p] =
                [IdleReq("none") EXCEPT
                    !.pc = "eo_loaded", !.kind = "edit_os", !.form = form,
                    !.os_id = os_id, !.service_order = <<orders[os_id]>>]]
       ELSE req' = [req EXCEPT ![p] =
                [IdleReq("NotFound") EXCEPT !.kind = "edit_os"]]
    /\ UNCHANGED <<so, ret, current_year, clients, vehicles, orders, company_info>>

\* Lines 205-249: the attributes of the loaded service_order object after the
\* handler's assignments from the form (every number of the form parses).
AssignedOrder(p) ==
    LET f == req[p].form
        loaded == req[p].service_order[1]
        items == Items(f)
    IN  [loaded EXCEPT
            !.labor_total = FloatOf[f.labor_total],
            !.general_budget = FloatOf[f.general_budget],
            !.discount_type = f.discount_type,
            !.discount_value = FloatOf[f.discount_value],
            !.surcharge_percentage =
                Min(FloatOf[f.surcharge_percentage], MaxSurcharge),
            !.is_paid = (f.is_paid = "on"),
            !.payment_date =
                IF f.is_paid = "on"
                THEN IF ~loaded.is_paid THEN Now ELSE loaded.payment_date
                ELSE NoDate,
            !.items = items,
            !.material_total = SumTotalPrice(items)]

\* A faulty variant: the edit gives the order a newly generated number.
EditedOrder_renumbered(p) ==
    LET assigned ==
            [AssignedOrder(p) EXCEPT
                !.os_number = generate_os_number(orders, current_year)]
    IN  [assigned EXCEPT !.final_total = calculate_totals(assigned)]

\* Lines 205-250: the object at commit, final_total recomputed.
EditedOrder(p) ==
    LET assigned == AssignedOrder(p)
    IN  [assigned EXCEPT !.final_total = calculate_totals(assigned)]

\* The row after the UPDATE the flush sends: it sets the columns whose
\* attribute differs from the value loaded at line 192 and leaves the other
\* columns as they are in the table; the items are deleted (line 225) and
\* inserted anew.
UpdatedRow(row, loaded, edited) ==
    [k \in DOMAIN row |->
        IF k = "items" THEN edited.items
        ELSE IF edited[k] # loaded[k] THEN edited[k]
        ELSE row[k]]

\* The company_info table after a CompanyInfo.get_instance() that no other
\* call overlaps: the row is created when there is none.
GetInstanceAlone ==
    IF company_info = <<>> THEN <<CompanyDefaults>> ELSE company_info

\* Lines 194-270: the POST body up to the commit, or the rollback of the
\* except branch when float() raises, after which the handler goes on to
\* render the page and calls CompanyInfo.get_instance() (line 270).
EditOsCommit(p) ==
    /\ req[p].pc = "eo_loaded"
    /\ LET f == req[p].form
           os_id == req[p].os_id
           loaded == req[p].service_order[1]
       IN  IF ~(/\ Parses(f.labor_total) /\ Parses(f.general_budget)
                /\ Parses(f.discount_value) /\ Parses(f.surcharge_percentage)
                /\ ItemsParse(f))
           THEN /\ Finish(p, "ValueError")
                /\ company_info' = GetInstanceAlone
                /\ UNCHANGED <<clients, orders>>
           ELSE /\ clients' = [clients EXCEPT ![loaded.client_id] =
                                  [name |-> f.client_name,
                                   phone |-> f.client_phone]]
                /\ orders' = [orders EXCEPT ![os_id] =
                                  UpdatedRow(orders[os_id], loaded, EditedOrder(p))]
                /\ Finish(p, "ok")
                /\ UNCHANGED company_info
    /\ UNCHANGED <<so, ret, current_year, vehicles, nreq>>

(***************************************************************************)
(* models.py: CompanyInfo.get_instance; routes.py: view_os, settings,      *)
(* update_settings                                                         *)
(***************************************************************************)

\* A field the submitted form does not have.
Absent == "<absent>"

\* allowed_file(filename) of the uploads; "" is no file.
AllowedFiles == {"a.png"}

\* secure_filename(f"{prefix}_{filename}")
UploadName(prefix, filename) ==
    IF prefix = "logo" THEN "logo_a.png" ELSE "pix_a.png"

FullSettingsForm ==
    [company_name |-> "Oficina A", company_phone |-> "1",
     company_address |-> "Rua A", company_cnpj |-> "11",
     logo |-> "a.png", pix_qr |-> "a.png"]

NameOnlyForm ==
    [company_name |-> "Oficina B", company_phone |-> Absent,
     company_address |-> Absent, company_cnpj |-> Absent,
     logo |-> "", pix_qr |-> "a.exe"]

SettingsForms == {FullSettingsForm, NameOnlyForm}

\* Lines 180-184: view_os loads the order (404 for an unknown id) and goes on
\* to CompanyInfo.get_instance().
ViewOs(p, os_id) ==
    /\ req[p].pc = "idle"
    /\ nreq < MaxRequests
    /\ nreq' = nreq + 1
    /\ IF os_id \in 1..Len(orders)
       THEN req' = [req EXCEPT ![p] =
                [IdleReq("none") EXCEPT
                    !.pc = "gi_query", !.kind = "view_os", !.os_id = os_id]]
       ELSE req' = [req EXCEPT ![p] =
                [IdleReq("NotFound") EXCEPT !.kind = "view_os"]]
    /\ UNCHANGED <<so, ret, current_year, clients, vehicles, orders, company_info>>

\* Lines 650-658: the settings page; a user who is not an administrator is
\* sent back to the dashboard.
SettingsPage(p, is_admin) ==
    /\ req[p].pc = "idle"
    /\ nreq < MaxRequests
    /\ nreq' = nreq + 1
    /\ IF is_admin
       THEN req' = [req EXCEPT ![p] =
                [IdleReq("none") EXCEPT
                    !.pc = "gi_query", !.kind = "settings", !.is_admin = TRUE]]
       ELSE req' = [req EXCEPT ![p] =
                [IdleReq("denied") EXCEPT !.kind = "settings"]]
    /\ UNCHANGED <<so, ret, current_year, clients, vehicles, orders, company_info>>

\* A faulty variant: the POST handler without the is_admin check.
UpdateSettings_unchecked(p, is_admin, form) ==
    /\ req[p].pc = "idle"
    /\ nreq < MaxRequests
    /\ nreq' = nreq + 1
    /\ req' = [req EXCEPT ![p] =
            [IdleReq("none") EXCEPT
                !.pc = "gi_query", !.kind = "update_settings",
                !.is_admin = is_admin, !.form = form]]
    /\ UNCHANGED <<so, ret, current_year, clients, vehicles, orders, company_info>>

\* Lines 661-670: update_settings; a user who is not an administrator is
\* sent back to the dashboard before anything is read.
UpdateSettings(p, is_admin, form) ==
    /\ req[p].pc = "idle"
    /\ nreq < MaxRequests
    /\ nreq' = nreq + 1
    /\ IF is_admin
       THEN req' = [req EXCEPT ![p] =
                [IdleReq("none") EXCEPT
                    !.pc = "gi_query", !.kind = "update_settings",
                    !.is_admin = TRUE, !.form = form]]
       ELSE req' = [req EXCEPT ![p] =
                [IdleReq("denied") EXCEPT !.kind = "update_settings"]]
    /\ UNCHANGED <<so, ret, current_year, clients, vehicles, orders, company_info>>

\* models.py:112: instance = cls.query.first().  The query has no ORDER BY:
\* with several rows it may return any of them.
GetInstanceQuery(p) ==
    /\ req[p].pc = "gi_query"
    /\ IF company_info = <<>>
       THEN req' = [req EXCEPT ![p].pc = "gi_queried"]
       ELSE \E id \in 1..Len(company_info) :
                req' = [req EXCEPT ![p].pc = "gi_queried",
                                   ![p].instance_id = id,
                                   ![p].instance = <<company_info[id]>>]
    /\ UNCHANGED <<so, ret, current_year, clients, vehicles, orders, company_info, nreq>>

\* models.py:113-117: when the query found no row, a row is added and
\* committed; the instance is returned.  view_os and settings then render
\* their page, update_settings goes on to its assignments.
GetInstanceReturn(p) ==
    /\ req[p].pc = "gi_queried"
    /\ company_info' =
          IF req[p].instance_id = 0 THEN Append(company_info, CompanyDefaults)
          ELSE company_info
    /\ IF req[p].kind = "update_settings"
       THEN req' = [req EXCEPT
                ![p].pc = "us_assign",
                ![p].instance_id =
                    IF req[p].instance_id = 0 THEN Len(company_info) + 1
                    ELSE req[p].instance_id,
                ![p].instance =
                    IF req[p].instance_id = 0 THEN <<CompanyDefaults>>
                    ELSE req[p].instance]
       ELSE Finish(p, "ok")
    /\ UNCHANGED <<so, ret, current_year, clients, vehicles, orders, nreq>>

\* request.form.get(field, current): the submitted text, or the current value
\* when the form has no such field.
FormGet(value, current) == IF value = Absent THEN current ELSE value

\* Lines 672-695: the attributes of the company_info object after the
\* assignments from the form and the uploads.
AssignedCompany(p) ==
    LET f == req[p].form
        loaded == req[p].instance[1]
    IN  [loaded EXCEPT
            !.name = FormGet(f.company_name, loaded.name),
            !.phone = FormGet(f.company_phone, loaded.phone),
            !.address = FormGet(f.company_address, loaded.address),
            !.cnpj = FormGet(f.company_cnpj, loaded.cnpj),
            !.logo_filename =
                IF f.logo \in AllowedFiles THEN UploadName("logo", f.logo)
                ELSE loaded.logo_filename,
            !.pix_qr_filename =
                IF f.pix_qr \in AllowedFiles THEN UploadName("pix", f.pix_qr)
                ELSE loaded.pix_qr_filename]

\* Lines 672-698: the assignments and the commit, which sends an UPDATE of
\* the changed columns.
UpdateSettingsCommit(p) ==
    /\ req[p].pc = "us_assign"
    /\ company_info' = [company_info EXCEPT ![req[p].instance_id] =
          UpdatedRow(company_info[req[p].instance_id], req[p].instance[1],
                     AssignedCompany(p))]
    /\ Finish(p, "ok")
    /\ UNCHANGED <<so, ret, current_year, clients, vehicles, orders, nreq>>

(***************************************************************************)
(* The calendar                                                            *)
(***************************************************************************)
NewYear ==
    /\ current_year < LastYear
    /\ current_year' = current_year + 1
    /\ UNCHANGED <<so, ret, clients, vehicles, orders, req, nreq, company_info>>

(***************************************************************************)
(* Specification of the application: the workers serve requests            *)
(* concurrently on a database that starts empty (db.create_all()).         *)
(* Transactions see committed rows and their own (READ COMMITTED).         *)
(***************************************************************************)
DefaultOrder == NewOrder(<<>>, 0, 0, 0, 0, "none", 0, 0, 0, FALSE)

InitDb ==
    /\ current_year = FirstYear
    /\ company_info = <<InitCompany>>
    /\ clients = <<>>
    /\ vehicles = <<>>
    /\ orders = <<>>
    /\ req = [p \in Procs |-> IdleReq("none")]
    /\ nreq = 0

Init == so = DefaultOrder /\ ret = <<>> /\ InitDb

Next ==
    \/ \E p \in Procs, form \in CreateForms : CreateOsClient(p, form)
    \/ \E p \in Procs : CreateOsGenerate(p)
    \/ \E p \in Procs : CreateOsInsert(p)
    \/ \E p \in Procs : CreateOsCommit(p)
    \/ \E p \in Procs, file \in CsvFiles : ImportStart(p, file)
    \/ \E p \in Procs : ImportRow(p)
    \/ \E p \in Procs : ImportCommit(p)
    \/ NewYear

Spec == Init /\ [][Next]_vars

(***************************************************************************)
(* Specification of direct calls of calculate_totals: any order with       *)
(* non-negative amounts and a surcharge within 0..MaxSurcharge.            *)
(***************************************************************************)
DiscountTypes == {"none", "percentage", "fixed", "PERCENT", ""}

\* Discount values beyond the small range: percentages up to and past 100.
DiscountMarks == {10, 25, 50, 100, 150}

DiscountValues == (0..MaxDiscount) \cup DiscountMarks

InitTotals ==
    /\ so \in { NewOrder(<<>>, 0, m, l, b, dt, dv, s, 0, FALSE) :
                  m \in 0..MaxAmount, l \in 0..MaxAmount, b \in 0..MaxBudget,
                  dt \in DiscountTypes, dv \in DiscountValues,
                  s \in 0..MaxSurcharge }
    /\ ret = <<>>
    /\ InitDb

\* A faulty variant: the function writes its result into the order.
Calculate_storing ==
    /\ ret = <<>>
    /\ ret' = <<calculate_totals(so)>>
    /\ so' = [so EXCEPT !.final_total = calculate_totals(so)]
    /\ UNCHANGED <<current_year, clients, vehicles, orders, req, nreq, company_info>>

\* A direct call: calculate_totals(so) reads the order and returns a value.
Calculate ==
    /\ ret = <<>>
    /\ ret' = <<calculate_totals(so)>>
    /\ UNCHANGED <<so, current_year, clients, vehicles, orders, req, nreq, company_info>>

NextTotals == Calculate

SpecTotals == InitTotals /\ [][NextTotals]_vars

(***************************************************************************)
(* Specification of orders created one at a time: a single worker, so each *)
(* creation is committed (or rolled back) before the next starts.  It      *)
(* starts on the empty database, or late in the last year of the model     *)
(* with the year's orders 1..PadLimit-Margin already issued.               *)
(***************************************************************************)
RECURSIVE Pow10(_)
Pow10(e) == IF e = 0 THEN 1 ELSE 10 * Pow10(e - 1)

\* The greatest number that fits the padded width.
PadLimit == Pow10(PadWidth) - 1

Worker == CHOOSE p \in Procs : TRUE

LateYearDb ==
    /\ current_year = LastYear
    /\ company_info = <<InitCompany>>
    /\ clients = << [name |-> PlainForm.client_name, phone |-> ""] >>
    /\ vehicles = <<>>
    /\ orders = [i \in 1..(PadLimit - Margin) |->
                    NewOrder(YearPrefix(LastYear) \o Format04d(i), 1, 0,
                             FloatOf[PlainForm.labor_total], 0, "none", 0, 0,
                             FloatOf[PlainForm.labor_total] * Scale, FALSE)]
    /\ req = [p \in Procs |-> IdleReq("none")]
    /\ nreq = 0

InitSeq == so = DefaultOrder /\ ret = <<>> /\ (InitDb \/ LateYearDb)

SeqForms == {PlainForm, BadItemForm}

NextSeq ==
    \/ \E form \in SeqForms : CreateOsClient(Worker, form)
    \/ CreateOsGenerate(Worker)
    \/ CreateOsInsert(Worker)
    \/ CreateOsCommit(Worker)
    \/ NewYear

SpecSeq == InitSeq /\ [][NextSeq]_vars

(***************************************************************************)
(* Specification of the order pages on a database that already has orders: *)
(* one created by create_os from DiscountForm and the two of an import of  *)
(* TwoRowFile.  The workers create, edit and import orders concurrently.   *)
(***************************************************************************)

\* The service_order row create_os commits for `form` (lines 112-154).
CreatedOrder(os_number, client_id, form) ==
    LET items == Items(form)
        service_order ==
            [NewOrder(os_number, client_id, SumTotalPrice(items),
                      FloatOf[form.labor_total], FloatOf[form.general_budget],
                      form.discount_type, FloatOf[form.discount_value],
                      Min(FloatOf[form.surcharge_percentage], MaxSurcharge),
                      0, FALSE)
                EXCEPT !.items = items]
    IN  [service_order EXCEPT !.final_total = calculate_totals(service_order)]

\* The service_order row import_csv commits for a CSV row (lines 550-563).
ImportedOrder(os_number, client_id, row) ==
    NewOrder(os_number, client_id, FloatOf[row.TotalMaterial],
             FloatOf[row.MaoDeObra], 0, "none", 0, 0,
             FloatOf[row.TotalGeral] * Scale, IsSim(row.Pago))

OrdersDb ==
    /\ so = DefaultOrder
    /\ ret = <<>>
    /\ current_year = FirstYear
    /\ clients = << [name |-> DiscountForm.client_name,
                     phone |-> DiscountForm.client_phone] >>
    /\ vehicles = << [client_id |-> 1] >>
    /\ orders =
          << CreatedOrder(YearPrefix(FirstYear) \o Format04d(1), 1, DiscountForm),
             ImportedOrder(YearPrefix(FirstYear) \o Format04d(2), 1, TwoRowFile[1]),
             ImportedOrder(YearPrefix(FirstYear) \o Format04d(3), 1, TwoRowFile[2]) >>
    /\ req = [p \in Procs |-> IdleReq("none")]
    /\ nreq = 0

InitEdit == OrdersDb /\ company_info = <<InitCompany>>

EditCreateForms == {NegSurchargeForm, BadLaborForm, BadItemForm}

\* The ids in the URLs of the edit requests: the three orders of InitEdit and
\* the next id, which exists only once an order has been created.
OsIds == 1..4

NextEdit ==
    \/ \E p \in Procs, form \in EditCreateForms : CreateOsClient(p, form)
    \/ \E p \in Procs : CreateOsGenerate(p)
    \/ \E p \in Procs : CreateOsInsert(p)
    \/ \E p \in Procs : CreateOsCommit(p)
    \/ \E p \in Procs, os_id \in OsIds, form \in EditForms :
          EditOsLoad(p, os_id, form)
    \/ \E p \in Procs : EditOsCommit(p)
    \/ \E p \in Procs : ImportStart(p, TwoRowFile)
    \/ \E p \in Procs : ImportRow(p)
    \/ \E p \in Procs : ImportCommit(p)

SpecEdit == InitEdit /\ [][NextEdit]_vars

(***************************************************************************)
(* Specification of the pages that use the company settings, on the        *)
(* database of OrdersDb.  The company_info table has the row of            *)
(* init_database(), or no row yet: the case get_instance() provides for.   *)
(***************************************************************************)
InitSettings == OrdersDb /\ company_info \in {<<>>, <<InitCompany>>}

NextSettings ==
    \/ \E p \in Procs, os_id \in OsIds : ViewOs(p, os_id)
    \/ \E p \in Procs, is_admin \in BOOLEAN : SettingsPage(p, is_admin)
    \/ \E p \in Procs, is_admin \in BOOLEAN, form \in SettingsForms :
          UpdateSettings(p, is_admin, form)
    \/ \E p \in Procs : GetInstanceQuery(p)
    \/ \E p \in Procs : GetInstanceReturn(p)
    \/ \E p \in Procs : UpdateSettingsCommit(p)

SpecSettings == InitSettings /\ [][NextSettings]_vars

(***************************************************************************)
(* Properties of calculate_totals, checked under SpecTotals                *)
(***************************************************************************)
Returned == ret # <<>>

\* The base the claims speak of: max(material_total + labor_total, general_budget).
ClaimBase == Max(so.material_total + so.labor_total, so.general_budget)

\* C1: calculate_totals never returns a negative value, for non-negative
\* amounts, any discount_type (recognized or not) and a surcharge in [0, 5].
C1_NeverNegative == Returned => ret[1] >= 0

C1_Witness ==
    /\ Returned
    /\ so.discount_type = "fixed"
    /\ so.discount_value > ClaimBase
    /\ so.surcharge_percentage > 0
    /\ ret[1] = 0

\* C2: with discount_type 'none', discount_value 0 and surcharge 0 the result
\* is max(material_total + labor_total, general_budget): the budget is a floor,
\* never a ceiling; with budget 0, or an itemized sum above the budget, the
\* result is the itemized sum.
C2_BudgetIsFloor ==
    (/\ Returned
     /\ so.discount_type = "none"
     /\ so.discount_value = 0
     /\ so.surcharge_percentage = 0)
    => /\ ret[1] = Scale * ClaimBase
       /\ so.general_budget = 0
            => ret[1] = Scale * (so.material_total + so.labor_total)
       /\ so.material_total + so.labor_total > so.general_budget
            => ret[1] = Scale * (so.material_total + so.labor_total)

C2_Witness ==
    /\ Returned
    /\ so.discount_type = "none"
    /\ so.discount_value = 0
    /\ so.surcharge_percentage = 0
    /\ so.material_total + so.labor_total > 0
    /\ so.general_budget > so.material_total + so.labor_total
    /\ ret[1] = Scale * so.general_budget

\* C3: with discount_type 'percentage', surcharge 0 and discount_value in
\* [0, 100] the result is base - base * discount_value / 100, the base being
\* the budget-adjusted one.
C3_PercentageOnBase ==
    (/\ Returned
     /\ so.discount_type = "percentage"
     /\ so.surcharge_percentage = 0
     /\ so.discount_value \in 0..Hundred)
    => ret[1] = Scale * ClaimBase - Hundred * (ClaimBase * so.discount_value)

C3_Witness ==
    /\ Returned
    /\ so.discount_type = "percentage"
    /\ so.surcharge_percentage = 0
    /\ so.discount_value \in 1..(Hundred - 1)
    /\ so.general_budget > so.material_total + so.labor_total
    /\ so.material_total + so.labor_total > 0
    /\ ret[1] > 0

\* C4: with discount_type 'fixed' and discount_value >= base the result is
\* exactly 0 for every surcharge in [0, 5].
C4_FixedBeyondBaseIsZero ==
    (/\ Returned
     /\ so.discount_type = "fixed"
     /\ so.discount_value >= ClaimBase)
    => ret[1] = 0

C4_Witness ==
    /\ Returned
    /\ so.discount_type = "fixed"
    /\ ClaimBase > 0
    /\ so.discount_value > ClaimBase
    /\ so.surcharge_percentage = MaxSurcharge
    /\ final_total(so) < 0
    /\ ret[1] = 0

\* What applying the surcharge to the base first and subtracting a fixed
\* discount afterwards would give (units of 1/10000).
SurchargeFirst ==
    Max(ClaimBase * Hundred * (Hundred + so.surcharge_percentage)
            - so.discount_value * Scale, 0)

\* C5: the result is max(after_discount + after_discount * surcharge / 100, 0)
\* with after_discount = base - discount_amount; with a fixed discount this
\* differs from surcharging the base first and discounting afterwards.
C5_SurchargeAfterDiscount ==
    Returned =>
        /\ ret[1] = Max(total_after_discount(so) * Hundred
                          + total_after_discount(so) * so.surcharge_percentage, 0)
        /\ total_after_discount(so) = ClaimBase * Hundred - discount_amount(so)
        /\ (/\ so.discount_type = "fixed"
            /\ so.discount_value > 0
            /\ so.surcharge_percentage > 0
            /\ SurchargeFirst > 0)
           => ret[1] # SurchargeFirst

C5_Witness ==
    /\ Returned
    /\ so.discount_type = "fixed"
    /\ so.discount_value > 0
    /\ so.surcharge_percentage > 0
    /\ ret[1] > 0
    /\ ret[1] < SurchargeFirst

\* C6: for a discount_type outside {'none', 'percentage', 'fixed'} a value is
\* returned (there is no error outcome), the one returned for 'none' with the
\* same other inputs, whatever discount_value is.
C6_UnknownTypeIsNone ==
    (Returned /\ so.discount_type \notin {"none", "percentage", "fixed"})
    => /\ ret[1] \in Nat
       /\ ret[1] = calculate_totals([so EXCEPT !.discount_type = "none"])
       /\ ret[1] = ClaimBase * Hundred * (Hundred + so.surcharge_percentage)

C6_Witness ==
    /\ Returned
    /\ so.discount_type = "PERCENT"
    /\ so.discount_value > ClaimBase
    /\ ClaimBase > 0
    /\ ret[1] > 0

(***************************************************************************)
(* Properties of generate_os_number and of order creation                  *)
(***************************************************************************)

\* The step in which worker p's call of generate_os_number() returns: line
\* 111 of create_os, or line 551 in an iteration of import_csv that goes on.
GenerateStep(p) ==
    \/ req[p].pc = "co_client" /\ req'[p].pc = "co_generated"
    \/ /\ req[p].pc = "imp_rows"
       /\ req'[p].pc = "imp_rows"
       /\ req'[p].row_idx = req[p].row_idx + 1

\* The rows of `rows` whose os_number starts with 'OS-{year}-'.
OfYear(rows, year) ==
    {i \in 1..Len(rows) : StartsWith(rows[i].os_number, YearPrefix(year))}

\* The sequence number an os_number ends with.
SeqOf(os_number) == StrToInt(LastSegment(os_number))

\* C7: when no order the query sees has prefix 'OS-{current_year}-',
\* generate_os_number returns 'OS-{current_year}-0001', whatever orders exist
\* for other years.
C7_FirstOfYear ==
    [][\A p \in Procs :
          (GenerateStep(p) /\ OfYear(Visible(p), current_year) = {})
          => req'[p].os_number =
                <<"O", "S", "-">> \o IntToStr(current_year)
                    \o <<"-", "0", "0", "0", "1">>]_vars

C7_Witness ==
    \E p \in Procs :
        /\ req[p].pc = "co_generated"
        /\ req[p].os_number = YearPrefix(current_year) \o <<"0", "0", "0", "1">>
        /\ OfYear(orders, current_year) = {}
        /\ Cardinality(OfYear(orders, current_year - 1)) >= 2

\* C8: when orders of the current year exist, generate_os_number returns the
\* sequence of the lexicographically greatest current-year os_number, plus 1;
\* while every issued sequence of the year is at most 9999 that is the numeric
\* maximum of the issued sequences plus 1.
C8_LexGreatestPlusOne ==
    [][\A p \in Procs :
          (GenerateStep(p) /\ OfYear(Visible(p), current_year) # {})
          => LET rows == Visible(p)
                 year == OfYear(rows, current_year)
                 got == req'[p].os_number
             IN  /\ got = YearPrefix(current_year) \o Format04d(SeqOf(got))
                 /\ \E i \in year :
                      /\ SeqOf(rows[i].os_number) + 1 = SeqOf(got)
                      /\ \A j \in year :
                            ~StrLess(rows[i].os_number, rows[j].os_number)
                 /\ (\A j \in year : SeqOf(rows[j].os_number) <= PadLimit)
                    => \A j \in year : SeqOf(rows[j].os_number) < SeqOf(got)]_vars

\* The call returned the widened number once more although the table already
\* holds it: the string order put 9999 above 10000.
C8_Witness ==
    \E p \in Procs :
        /\ req[p].pc = "co_generated"
        /\ SeqOf(req[p].os_number) = PadLimit + 1
        /\ \E i \in 1..Len(orders) : orders[i].os_number = req[p].os_number
        /\ \E i \in 1..Len(orders) : SeqOf(orders[i].os_number) = PadLimit

\* The first Len(os_number) - Len(suffix) characters: 'OS-{year}-'.
PrefixOf(os_number) ==
    SubSeq(os_number, 1, Len(os_number) - Len(LastSegment(os_number)))

\* C9: with orders created one at a time, within one calendar year the k-th
\* created order gets sequence k (start at 1, steps of exactly 1, no gaps, no
\* repeats) for every number of orders in the year, also beyond 9999, where
\* the suffix widens and the creation does not fail.
C9_SequentialNumbering ==
    /\ \A i \in 1..Len(orders) :
          SeqOf(orders[i].os_number) =
              IF i > 1 /\ PrefixOf(orders[i - 1].os_number)
                            = PrefixOf(orders[i].os_number)
              THEN SeqOf(orders[i - 1].os_number) + 1
              ELSE 1
    /\ \A p \in Procs :
          /\ req[p].outcome # "IntegrityError"
          /\ req[p].pc = "co_generated"
             => SeqOf(req[p].os_number) =
                  Cardinality({i \in 1..Len(orders) :
                      PrefixOf(orders[i].os_number)
                          = PrefixOf(req[p].os_number)}) + 1

\* C10: under every interleaving of concurrent create_os and import_csv
\* requests the committed orders have pairwise distinct os_number values.
C10_UniqueOsNumbers ==
    \A i, j \in 1..Len(orders) :
        i # j => orders[i].os_number # orders[j].os_number

\* Two requests computed the same number; one committed it, the other was
\* refused by the unique index.
C10_Witness ==
    \E p \in Procs :
        /\ req[p].outcome = "IntegrityError"
        /\ Len(orders) >= 2
        /\ \E q \in Procs \ {p} : req[q].outcome = "ok"

(***************************************************************************)
(* Properties of the request handlers                                      *)
(***************************************************************************)

\* C11: a create_os request whose computed os_number collides with a number
\* a concurrent request committed is retried with a freshly read maximum; it
\* does not end in an error with no order created.
C11_CollisionIsRetried ==
    \A p \in Procs :
        ~(/\ req[p].pc = "idle"
          /\ req[p].kind = "create_os"
          /\ req[p].outcome = "IntegrityError")

\* C12: every service order persisted by create_os or edit_os has a stored
\* surcharge_percentage within [0, 5], whatever value the form submitted.
C12_SurchargeClamped ==
    \A i \in 1..Len(orders) :
        /\ orders[i].surcharge_percentage >= 0
        /\ orders[i].surcharge_percentage <= 5

\* C13: in every reachable state every persisted service order has
\* final_total >= 0, whichever operation created or last modified it.
C13_FinalTotalNonNegative ==
    \A i \in 1..Len(orders) : orders[i].final_total >= 0

\* C14: in every reachable state each persisted order's final_total equals
\* calculate_totals applied to the order's stored material_total,
\* labor_total, general_budget, discount_type, discount_value and
\* surcharge_percentage.
C14_FinalTotalIsDerived ==
    \A i \in 1..Len(orders) :
        orders[i].final_total = calculate_totals(orders[i])

\* C15: once an order is persisted no operation changes its os_number:
\* every step (an edit_os with any form, a payment change, a later creation
\* or import) leaves each committed order in place with the os_number it had.
C15_OsNumberImmutable ==
    [][/\ Len(orders') >= Len(orders)
       /\ \A i \in 1..Len(orders) :
             orders'[i].os_number = orders[i].os_number]_vars

\* An edit has marked one of the first orders paid and changed its labor,
\* another order has been added since, and the order still has its number.
C15_Witness ==
    /\ Len(orders) > 3
    /\ \E p \in Procs : req[p].kind = "edit_os" /\ req[p].outcome = "ok"
    /\ \E i \in 1..3 :
          /\ orders[i].payment_date = Now
          /\ orders[i].labor_total = FloatOf[PlainForm.labor_total]
          /\ orders[i].os_number = YearPrefix(FirstYear) \o Format04d(i)

\* An order with the financial fields of o and other values in the fields
\* calculate_totals has no use for.
Twin(o) ==
    [o EXCEPT !.final_total = Scale, !.is_paid = TRUE, !.payment_date = Now,
              !.client_id = 1, !.os_number = YearPrefix(FirstYear) \o Format04d(1)]

\* C16: calculate_totals is pure and deterministic: a call leaves every field
\* of the order it is given as it was (final_total included), and its result
\* is the result for any order with equal financial fields.
C16_PureAndDeterministic ==
    [][(ret = <<>> /\ ret' # <<>>)
          => /\ so' = so
             /\ ret'[1] = calculate_totals(Twin(so))]_vars

\* A call returned a positive total and the order's final_total is still the
\* 0 it held before the call.
C16_Witness ==
    /\ Returned
    /\ ret[1] > 0
    /\ so.final_total = 0
    /\ ret[1] = calculate_totals(Twin(so))

\* Worker p is in create_os between generate_os_number() and its commit.
HoldsNumber(p) ==
    /\ req[p].kind = "create_os"
    /\ req[p].pc \in {"co_generated", "co_flushed"}

\* C17: the read of the maximum and the insert are not one atomic step.  A
\* create_os request that runs generate_os_number() while a concurrent
\* create_os request holds a number of the current year that is not yet
\* committed, and no committed order of the year has that sequence or a
\* later one, computes that same number; so two concurrent requests can
\* both hold one os_number before either commits (C17_Witness).
C17_ReadAndInsertNotAtomic ==
    [][\A p \in Procs : \A q \in Procs \ {p} :
          (/\ req[p].pc = "co_client"
           /\ req'[p].pc = "co_generated"
           /\ HoldsNumber(q)
           /\ StartsWith(req[q].os_number, YearPrefix(current_year))
           /\ \A i \in OfYear(orders, current_year) :
                 SeqOf(orders[i].os_number) < SeqOf(req[q].os_number))
          => req'[p].os_number = req[q].os_number]_vars

\* Two concurrent create_os requests hold the same computed os_number, one
\* of them has already sent its INSERT, and neither has committed.
C17_Witness ==
    \E p \in Procs : \E q \in Procs \ {p} :
        /\ HoldsNumber(p)
        /\ HoldsNumber(q)
        /\ req[p].pc = "co_flushed"
        /\ req[p].os_number = req[q].os_number
        /\ \A i \in 1..Len(orders) : orders[i].os_number # req[p].os_number

\* Worker p's create_os or edit_os request ends in this step with its commit.
Succeeds(p, kind) ==
    /\ req[p].kind = kind
    /\ req[p].pc # "idle"
    /\ req'[p].pc = "idle"
    /\ req'[p].outcome = "ok"

\* The order has exactly the submitted line items with a non-blank name, and
\* their quantity * unit_price add up to its material_total.
HasSubmittedItems(order, form) ==
    /\ order.items = Items(form)
    /\ \A i \in 1..Len(order.items) : ~IsBlank(order.items[i].name)
    /\ order.material_total =
          SumTotalPrice([i \in 1..Len(order.items) |->
              [total_price |-> order.items[i].quantity
                                  * order.items[i].unit_price]])
    /\ order.material_total = SumTotalPrice(Items(form))

\* C18: after a successful create_os or edit_os the order's material_total is
\* the sum of quantity * unit_price over the submitted items with a non-blank
\* name, and the order's persisted items are exactly those items; after an
\* edit_os no item from before the edit remains.
C18_MaterialTotalOfItems ==
    [][\A p \in Procs :
          /\ Succeeds(p, "create_os")
             => HasSubmittedItems(orders'[Len(orders')], req[p].form)
          /\ Succeeds(p, "edit_os")
             => HasSubmittedItems(orders'[req[p].os_id], req[p].form)]_vars

\* The greatest sequence number among the rows of the year, 0 when none.
MaxSeq(rows, year) ==
    IF OfYear(rows, year) = {} THEN 0
    ELSE CHOOSE m \in {SeqOf(rows[i].os_number) : i \in OfYear(rows, year)} :
            \A i \in OfYear(rows, year) : SeqOf(rows[i].os_number) <= m

\* C19: a single import_csv call with n rows persists n orders whose
\* os_numbers are pairwise distinct and continue the current year's sequence
\* consecutively: max+1 .. max+n, in the order of the rows.
C19_ImportNumbersConsecutive ==
    [][\A p \in Procs :
          (/\ req[p].kind = "import_csv"
           /\ req[p].pc # "idle"
           /\ req'[p].pc = "idle")
          => LET n == Len(req[p].form)
                 max == MaxSeq(orders, current_year)
             IN  /\ Len(orders') = Len(orders) + n
                 /\ \A k \in 1..n :
                       orders'[Len(orders) + k].os_number =
                           YearPrefix(current_year) \o Format04d(max + k)]_vars

\* The step is one of worker p's create_os or edit_os request and is not the
\* commit that ends it successfully.
StepShortOfCommit(p) ==
    /\ req'[p] # req[p]
    /\ req'[p].kind \in {"create_os", "edit_os"}
    /\ ~(req'[p].pc = "idle" /\ req'[p].outcome = "ok")

\* C20: create_os and edit_os are all-or-nothing on the database: no step of
\* the POST handling other than the final commit changes the persisted
\* clients, vehicles, orders or items, so a request that raises (a bad number
\* in the form, a uniqueness violation) and is rolled back leaves them as
\* they were: no new client or vehicle, no order number consumed.
C20_AllOrNothing ==
    [][\A p \in Procs :
          StepShortOfCommit(p)
          => clients' = clients /\ vehicles' = vehicles /\ orders' = orders]_vars

\* A create_os for a new client with a new vehicle and an edit_os have both
\* failed on a bad number, and the tables are those of the start.
C20_Witness ==
    /\ \E p \in Procs : \E q \in Procs \ {p} :
          /\ req[p].pc = "idle" /\ req[p].kind = "create_os"
          /\ req[p].outcome = "ValueError"
          /\ req[q].pc = "idle" /\ req[q].kind = "edit_os"
          /\ req[q].outcome = "ValueError"
    /\ ClientByName(BadLaborForm.client_name) = 0
    /\ Len(clients) = 1
    /\ Len(vehicles) = 1
    /\ Len(orders) = 3
    /\ orders[1] = CreatedOrder(YearPrefix(FirstYear) \o Format04d(1), 1, DiscountForm)

\* The step is one of worker p's import_csv request and is not the commit
\* that ends it successfully.
ImportStepShortOfCommit(p) ==
    /\ req'[p] # req[p]
    /\ req'[p].kind = "import_csv"
    /\ ~(req'[p].pc = "idle" /\ req'[p].outcome = "ok")

\* C21: import_csv is all-or-nothing: no step of an import other than its
\* final commit changes the persisted orders or clients, so when processing
\* a row raises, nothing of the file is persisted, the rows processed before
\* the failing row included.
C21_ImportAllOrNothing ==
    [][\A p \in Procs :
          ImportStepShortOfCommit(p)
          => clients' = clients /\ vehicles' = vehicles /\ orders' = orders]_vars

\* An import has failed at its second row (the row's client is unknown)
\* after its first row had been given an order, and the only committed order
\* is the one of the create_os that preceded it.
C21_Witness ==
    /\ \E p \in Procs :
          /\ req[p].pc = "idle"
          /\ req[p].kind = "import_csv"
          /\ req[p].outcome = "TypeError"
          /\ req[p].row_idx = 2
    /\ ClientByName(NewClientFile[1].Cliente) # 0
    /\ ClientByName(NewClientFile[2].Cliente) = 0
    /\ Len(orders) = 1

\* C22: payment bookkeeping: is_paid and payment_date go together.  In every
\* reachable state an order with is_paid false has no payment_date and an
\* order with is_paid true has one.
C22_PaidHasPaymentDate ==
    \A i \in 1..Len(orders) :
        orders[i].is_paid <=> orders[i].payment_date # NoDate

\* The step is one of worker p's settings or update_settings request, made
\* by a user who is not an administrator.
NonAdminSettingsStep(p) ==
    /\ req'[p] # req[p]
    /\ req'[p].kind \in {"settings", "update_settings"}
    /\ ~req'[p].is_admin

\* C23: only administrators can change company settings: a settings or
\* update_settings request of a logged-in user with is_admin false leaves
\* every CompanyInfo field unchanged and creates no CompanyInfo row.
C23_OnlyAdminsChangeSettings ==
    [][\A p \in Procs :
          NonAdminSettingsStep(p) => company_info' = company_info]_vars

\* A user who is not an administrator has posted the settings form while
\* there was no CompanyInfo row; the request was denied and there is still
\* no row.
C23_Witness ==
    /\ company_info = <<>>
    /\ \E p \in Procs :
          /\ req[p].pc = "idle"
          /\ req[p].kind = "update_settings"
          /\ ~req[p].is_admin
          /\ req[p].outcome = "denied"

\* C24: CompanyInfo is a singleton: after any sequence of requests, also
\* concurrent first requests that call get_instance, there is at most one
\* CompanyInfo row.
C24_CompanyInfoSingleton == Len(company_info) <= 1

====
